---- MODULE Spec2Model ----
(***************************************************************************)
(* A model of openwisp_utils/admin.py: the admin mixins                    *)
(* TimeReadonlyAdminMixin, ReadOnlyAdmin, AlwaysHasChangedMixin,           *)
(* CopyableFieldsAdmin and ReceiveUrlAdmin.                                *)
(*                                                                         *)
(* One object is under study in every behaviour; klass is the method       *)
(* resolution order of its class.  The host framework (Django's            *)
(* ModelAdmin, its forms, its URL reversal) supplies the inputs of every   *)
(* call: they are drawn from small sets.                                   *)
(***************************************************************************)
EXTENDS Integers, Sequences, FiniteSets, TLC

\* ------------------------------------------------------------ bounds
\* longest field list the host hands over
MaxFields == 3
\* longest copyable_fields declaration
MaxCopyable == 2
\* longest readonly_fields declaration of a class body
MaxDeclared == 2
\* how many times an initializer runs on objects of one class
MaxRuns == 3
\* objects of the model (primary keys 1..MaxObjects)
MaxObjects == 2
\* requests in flight on one shared ReceiveUrlAdmin
NumRequests == 2
\* values an inline form field takes (0..MaxValue)
MaxValue == 2
\* calls recorded on a ReadOnlyAdmin
MaxCalls == 3

\* ------------------------------------------------------------ values
\* Python's None where a string is expected (a class attribute left unset)
None == "None"
\* Python's None where an object is expected; objects are their primary keys
NoObject == 0
Objects == 1..MaxObjects

Range(s) == {s[i] : i \in DOMAIN s}
SeqsUpTo(S, n) == UNION {[1..k -> S] : k \in 0..n}
\* every order a set may be iterated in
Orders(S) == {s \in [1..Cardinality(S) -> S] : Range(s) = S}

\* field names of the models under administration
FieldNames == {"name", "uuid", "key"}
TimeFieldNames == {"name", "created", "modified"}

\* outcome of a call
NoOutcome == [kind |-> "none", exc |-> None]
Raise(e) == [kind |-> "raise", exc |-> e]

\* the exception classes of the module and their bases
Bases(e) ==
    CASE e = "CopyableFieldError" -> {"CopyableFieldError", "FieldError", "Exception"}
      [] e = "ValueError" -> {"ValueError", "Exception"}
      [] e = "UnboundLocalError" -> {"UnboundLocalError", "NameError", "Exception"}
      [] e = "AttributeError" -> {"AttributeError", "Exception"}
      [] e = "NoReverseMatch" -> {"NoReverseMatch", "Exception"}
      [] OTHER -> {}
IsInstance(e, cls) == cls \in Bases(e)

\* ------------------------------------------------------------ classes
MRO_Copyable == <<"CopyableFieldsAdmin", "ModelAdmin">>
MRO_ReceiveUrl == <<"ReceiveUrlAdmin", "ModelAdmin">>
MRO_ReadOnly == <<"ReadOnlyAdmin", "ModelAdmin">>
MRO_Time == <<"TimeReadonlyAdminMixin", "ModelAdmin">>
MRO_TimeReadOnly == <<"TimeReadonlyAdminMixin", "ReadOnlyAdmin", "ModelAdmin">>
MRO_ReadOnlyTime == <<"ReadOnlyAdmin", "TimeReadonlyAdminMixin", "ModelAdmin">>
MRO_Form == <<"AlwaysHasChangedMixin", "ModelForm">>

VARIABLES
    klass,                       \* method resolution order of the object's class
    call,                        \* the last call made on the object and its outcome
    copyable_fields,             \* CopyableFieldsAdmin.copyable_fields
    receive_url_name,            \* ReceiveUrlAdmin class attributes
    receive_url_object_arg,
    receive_url_querystring_arg,
    receive_url_urlconf,
    receive_url_baseurl,
    request,                     \* self.request of the shared ReceiveUrlAdmin
    handlers,                    \* the request handlers running on it
    declared,                    \* readonly_fields as the class body declares it
    class_readonly_fields,       \* the class attribute readonly_fields (an object)
    readonly_fields,             \* the instance attribute readonly_fields
    init,                        \* position in the chain of initializers
    runs,                        \* initializer runs: on this object, on the class
    model_fields,                \* self.model._meta.fields, by name
    exclude,                     \* ReadOnlyAdmin.exclude
    form,                        \* the inline form an AlwaysHasChangedMixin is mixed into
    store                        \* the objects in storage

copyableVars == <<copyable_fields>>
receiveCfg == <<receive_url_name, receive_url_object_arg, receive_url_querystring_arg,
                receive_url_urlconf, receive_url_baseurl>>
receiveVars == <<receiveCfg, request, handlers>>
initVars == <<declared, class_readonly_fields, readonly_fields, init, runs,
              model_fields, exclude>>
formVars == <<form>>
vars == <<klass, call, copyableVars, receiveVars, initVars, formVars, store>>

NoCall == [op |-> "none", n |-> 0]

\* the parts of the state a class does not have
IdleCopyable == copyable_fields = <<>>
IdleReceive ==
    /\ receive_url_name = None /\ receive_url_object_arg = None
    /\ receive_url_querystring_arg = None /\ receive_url_urlconf = None
    /\ receive_url_baseurl = None
    /\ request = 0
    /\ handlers = <<>>
IdleInit ==
    /\ declared = [kind |-> "tuple", val |-> <<>>]
    /\ class_readonly_fields = [kind |-> "tuple", val |-> <<>>]
    /\ readonly_fields = [bound |-> "unset", kind |-> "tuple", val |-> <<>>]
    /\ init = [pos |-> 0, phase |-> "done", pending |-> <<>>]
    /\ runs = [object |-> 0, class |-> 0]
    /\ model_fields = <<>>
    /\ exclude = <<>>
IdleForm == form = [adding |-> FALSE, parent_adding |-> FALSE, data |-> 0, initial |-> 0]
IdleStore == store = [o \in Objects |-> "absent"]

\* ------------------------------------------------- CopyableFieldsAdmin

\* _check_copyable_subset_fields: TRUE when it returns, FALSE when it raises
CheckOnlyFirst(copyable, fields) ==
    copyable = <<>> \/ copyable[1] \in Range(fields)
check_copyable_subset_fields(copyable, fields) ==
    Range(copyable) \subseteq Range(fields)

\* get_fields: the outcomes of one call (tuple(set(...)) iterates in any order)
GetFieldsKeepsCopyable(copyable, fields, obj) ==
    IF ~check_copyable_subset_fields(copyable, fields)
    THEN {Raise("CopyableFieldError")}
    ELSE {[kind |-> "return", exc |-> None, val |-> fields]}
get_fields(copyable, fields, obj) ==
    IF ~check_copyable_subset_fields(copyable, fields)
    THEN {Raise("CopyableFieldError")}
    ELSE IF obj = NoObject
         THEN {[kind |-> "return", exc |-> None, val |-> p] :
                   p \in Orders(Range(fields) \ Range(copyable))}
         ELSE {[kind |-> "return", exc |-> None, val |-> fields]}

\* get_readonly_fields
GetReadonlyFieldsAlways(copyable, readonly, obj) ==
    [kind |-> "return", exc |-> None, val |-> readonly \o copyable]
get_readonly_fields(copyable, readonly, obj) ==
    IF obj = NoObject
    THEN [kind |-> "return", exc |-> None, val |-> readonly]
    ELSE [kind |-> "return", exc |-> None, val |-> readonly \o copyable]

\* the requests the host delivers: the operation, the host's own list, the object
CopyableRequests ==
    [op : {"get_fields", "get_readonly_fields"},
     fields : SeqsUpTo(FieldNames, MaxFields),
     obj : {NoObject} \cup Objects,
     out : {NoOutcome}]

InitCopyable ==
    /\ klass = MRO_Copyable
    /\ call \in CopyableRequests
    /\ copyable_fields \in SeqsUpTo(FieldNames, MaxCopyable)
    /\ IdleReceive /\ IdleInit /\ IdleForm /\ IdleStore

\* the request reaches get_fields; call.fields is the host's field list
GetFields ==
    /\ klass = MRO_Copyable
    /\ call.op = "get_fields" /\ call.out = NoOutcome
    /\ \E out \in get_fields(copyable_fields, call.fields, call.obj) :
           call' = [call EXCEPT !.out = out]
    /\ UNCHANGED <<klass, copyableVars, receiveVars, initVars, formVars, store>>

\* the request reaches get_readonly_fields; call.fields is the host's readonly list
GetReadonlyFields ==
    /\ klass = MRO_Copyable
    /\ call.op = "get_readonly_fields" /\ call.out = NoOutcome
    /\ call' = [call EXCEPT
                  !.out = get_readonly_fields(copyable_fields, call.fields, call.obj)]
    /\ UNCHANGED <<klass, copyableVars, receiveVars, initVars, formVars, store>>

NextCopyable == GetFields \/ GetReadonlyFields

\* ----------------------------------------------------- ReceiveUrlAdmin
Requests == 1..NumRequests
\* request.scheme and request.get_host() of request r
Scheme(r) == IF r % 2 = 1 THEN "http" ELSE "https"
Host(r) == "host" \o ToString(r) \o ".test"

\* getattr(obj, attr) as str.format and reverse render it
GetAttr(obj, attr) == IF attr = "pk" THEN ToString(obj) ELSE "key" \o ToString(obj)

\* Python truthiness of an optional string
Truthy(str) == str # None /\ str # ""

\* django.urls.reverse: the path of a named view (no view is named None)
Reverse(name, urlconf, kwargs) ==
    IF name = None
    THEN [ok |-> FALSE, path |-> ""]
    ELSE [ok |-> TRUE,
          path |-> (IF urlconf = None THEN "" ELSE "/" \o urlconf)
                   \o "/" \o name \o "/"
                   \o (IF kwargs = <<>> THEN "" ELSE kwargs[2] \o "/")]

\* '{0}://{1}'.format(scheme, host)
BaseUrlOf(r) == Scheme(r) \o "://" \o Host(r)
\* '{0}{1}?{2}={3}'.format(baseurl, receive_path, arg, value)
FormatUrl(baseurl, path, arg, value) == baseurl \o path \o "?" \o arg \o "=" \o value

UrlOutcome(kind, exc, val, reversed, read) ==
    [kind |-> kind, exc |-> exc, val |-> val, reversed |-> reversed, read_request |-> read]

\* receive_url(obj), self_request being self.request (0: the attribute is not set).
\* The outcome tells whether reverse was called and whether self.request was read.
ReceiveUrlNoNameCheck(cfg, self_request, obj) ==
    LET kwargs == IF Truthy(cfg.object_arg)
                  THEN <<cfg.object_arg, GetAttr(obj, cfg.object_arg)>>
                  ELSE <<>>
        rev == Reverse(cfg.name, cfg.urlconf, kwargs)
    IN  IF ~rev.ok
        THEN UrlOutcome("raise", "NoReverseMatch", "", TRUE, FALSE)
        ELSE UrlOutcome("return", None, rev.path, TRUE, FALSE)
receive_url(cfg, self_request, obj) ==
    LET kwargs == IF Truthy(cfg.object_arg)
                  THEN <<cfg.object_arg, GetAttr(obj, cfg.object_arg)>>
                  ELSE <<>>
        rev == Reverse(cfg.name, cfg.urlconf, kwargs)
        read == ~Truthy(cfg.baseurl)
        baseurl == IF read THEN BaseUrlOf(self_request) ELSE cfg.baseurl
    IN  IF cfg.name = None
        THEN UrlOutcome("raise", "ValueError", "", FALSE, FALSE)
        ELSE IF ~rev.ok
        THEN UrlOutcome("raise", "NoReverseMatch", "", TRUE, FALSE)
        ELSE IF read /\ self_request = 0
        THEN UrlOutcome("raise", "AttributeError", "", TRUE, TRUE)
        ELSE IF Truthy(cfg.querystring_arg)
        THEN UrlOutcome("return", None,
                        FormatUrl(baseurl, rev.path, cfg.querystring_arg,
                                  GetAttr(obj, cfg.querystring_arg)),
                        TRUE, read)
        \* `url` was never assigned: return url raises
        ELSE UrlOutcome("raise", "UnboundLocalError", "", TRUE, read)

\* the class attributes of the admin, as one record
ReceiveConfig ==
    [name |-> receive_url_name, object_arg |-> receive_url_object_arg,
     querystring_arg |-> receive_url_querystring_arg,
     urlconf |-> receive_url_urlconf, baseurl |-> receive_url_baseurl]

NoUrl == UrlOutcome("none", None, "", FALSE, FALSE)

InitReceive ==
    /\ klass = MRO_ReceiveUrl
    /\ call = NoCall
    /\ receive_url_name \in {None, "device-receive"}
    /\ receive_url_object_arg \in {None, "pk"}
    /\ receive_url_querystring_arg \in {None, "", "key"}
    /\ receive_url_urlconf \in {None, "api"}
    /\ receive_url_baseurl \in {None, "", "https://x.test"}
    /\ request = 0
    /\ handlers = [r \in Requests |-> [pc |-> "start", obj |-> NoObject, out |-> NoUrl]]
    /\ IdleCopyable /\ IdleInit /\ IdleForm /\ IdleStore

\* add_view / change_view, up to the call of the host's view: self.request = request
StoreRequest(r, obj) ==
    /\ handlers[r].pc = "start"
    /\ request' = r
    /\ handlers' = [handlers EXCEPT ![r] = [@ EXCEPT !.pc = "view", !.obj = obj]]

add_view(r) ==
    /\ klass = MRO_ReceiveUrl
    /\ \E obj \in Objects : StoreRequest(r, obj)
    /\ UNCHANGED <<klass, call, copyableVars, receiveCfg, initVars, formVars, store>>

change_view(r) ==
    /\ klass = MRO_ReceiveUrl
    /\ \E obj \in Objects : StoreRequest(r, obj)
    /\ UNCHANGED <<klass, call, copyableVars, receiveCfg, initVars, formVars, store>>

\* the host's view, rendering the form for request r, calls receive_url(obj)
RenderOwnRequest(r) ==
    /\ klass = MRO_ReceiveUrl
    /\ handlers[r].pc = "view"
    /\ handlers' = [handlers EXCEPT ![r] =
           [@ EXCEPT !.pc = "done",
                     !.out = receive_url(ReceiveConfig, r, handlers[r].obj)]]
    /\ UNCHANGED <<klass, call, copyableVars, receiveCfg, request, initVars, formVars, store>>
Render(r) ==
    /\ klass = MRO_ReceiveUrl
    /\ handlers[r].pc = "view"
    /\ handlers' = [handlers EXCEPT ![r] =
           [@ EXCEPT !.pc = "done",
                     !.out = receive_url(ReceiveConfig, request, handlers[r].obj)]]
    /\ UNCHANGED <<klass, call, copyableVars, receiveCfg, request, initVars, formVars, store>>

NextReceive == \E r \in Requests : add_view(r) \/ change_view(r) \/ Render(r)

\* ------------------------------- TimeReadonlyAdminMixin, ReadOnlyAdmin
Timestamps == <<"created", "modified">>

\* self.readonly_fields: the instance attribute, else the class attribute
Lookup(class_attr, inst_attr) ==
    IF inst_attr.bound = "own"
    THEN [kind |-> inst_attr.kind, val |-> inst_attr.val]
    ELSE class_attr
Unset == [bound |-> "unset", kind |-> "tuple", val |-> <<>>]
Shared == [bound |-> "shared", kind |-> "tuple", val |-> <<>>]
Own(kind, val) == [bound |-> "own", kind |-> kind, val |-> val]

\* self.readonly_fields += extra.  A tuple is replaced by a new tuple bound to the
\* instance; a list is extended in place and the instance attribute is bound to
\* that same list, which is the class's own list when the instance had none.
IAddMissing(class_attr, inst_attr, extra) ==
    LET cur == Lookup(class_attr, inst_attr)
        missing == SelectSeq(extra, LAMBDA n : n \notin Range(cur.val))
    IN  [class |-> class_attr, inst |-> Own(cur.kind, cur.val \o missing)]
IAdd(class_attr, inst_attr, extra) ==
    LET cur == Lookup(class_attr, inst_attr)
    IN  IF cur.kind = "tuple"
        THEN [class |-> class_attr, inst |-> Own("tuple", cur.val \o extra)]
        ELSE IF inst_attr.bound = "own"
        THEN [class |-> class_attr, inst |-> Own("list", cur.val \o extra)]
        ELSE [class |-> [kind |-> "list", val |-> cur.val \o extra], inst |-> Shared]

\* [f.name for f in self.model._meta.fields if f.name not in exclude]
NotExcluded(fields, excl) == SelectSeq(fields, LAMBDA n : n \notin Range(excl))

Injective(q) == \A i, j \in DOMAIN q : q[i] = q[j] => i = j
StoreValues == {"absent", "v1"}
\* what a form submits for an object
Submitted == {"v2"}

InitAdmin ==
    /\ klass \in {MRO_Time, MRO_TimeReadOnly, MRO_ReadOnlyTime, MRO_ReadOnly}
    /\ call = NoCall
    /\ declared \in [kind : IF klass = MRO_ReadOnly THEN {"tuple"} ELSE {"tuple", "list"},
                     val : IF klass = MRO_ReadOnly THEN {<<>>}
                           ELSE SeqsUpTo(TimeFieldNames, MaxDeclared)]
    /\ class_readonly_fields = declared
    /\ readonly_fields = Unset
    /\ init = [pos |-> 0, phase |-> "new", pending |-> <<>>]
    /\ runs = [object |-> 0, class |-> 0]
    /\ model_fields \in IF klass = MRO_Time THEN {<<>>}
                        ELSE {q \in SeqsUpTo(TimeFieldNames, MaxFields) : Injective(q)}
    /\ exclude \in IF klass = MRO_Time THEN {<<>>} ELSE SeqsUpTo(TimeFieldNames, 1)
    /\ store \in IF klass = MRO_ReadOnly THEN [Objects -> StoreValues]
                 ELSE {[o \in Objects |-> "absent"]}
    /\ IdleCopyable /\ IdleReceive /\ IdleForm

IsAdmin == klass \in {MRO_Time, MRO_TimeReadOnly, MRO_ReadOnlyTime, MRO_ReadOnly}
Entering(cls) == IsAdmin /\ init.phase = "enter" /\ klass[init.pos] = cls

\* an initializer returns to the frame that called it through super(), if any
Returned ==
    IF init.pending = <<>>
    THEN [pos |-> 0, phase |-> "done", pending |-> <<>>]
    ELSE [pos |-> Head(init.pending), phase |-> "resume", pending |-> Tail(init.pending)]

\* Klass(model, admin_site), or __init__ called once more on the same object
CallInit ==
    /\ IsAdmin
    /\ init.phase \in {"new", "done"}
    /\ runs.class < MaxRuns
    /\ call = NoCall
    /\ init' = [pos |-> 1, phase |-> "enter", pending |-> <<>>]
    /\ runs' = [object |-> runs.object + 1, class |-> runs.class + 1]
    /\ UNCHANGED <<klass, call, copyableVars, receiveVars, declared, class_readonly_fields,
                   readonly_fields, model_fields, exclude, formVars, store>>

\* another object of the same class is allocated
NewObject ==
    /\ IsAdmin
    /\ init.phase = "done"
    /\ runs.class < MaxRuns
    /\ call = NoCall
    /\ readonly_fields' = Unset
    /\ init' = [pos |-> 0, phase |-> "new", pending |-> <<>>]
    /\ runs' = [runs EXCEPT !.object = 0]
    /\ UNCHANGED <<klass, call, copyableVars, receiveVars, declared, class_readonly_fields,
                   model_fields, exclude, formVars, store>>

\* TimeReadonlyAdminMixin.__init__: the append, then super().__init__ as its last act
TimeReadonlyInit ==
    /\ Entering("TimeReadonlyAdminMixin")
    /\ LET r == IAdd(class_readonly_fields, readonly_fields, Timestamps)
       IN  /\ class_readonly_fields' = r.class
           /\ readonly_fields' = r.inst
    /\ init' = [init EXCEPT !.pos = @ + 1]
    /\ UNCHANGED <<klass, call, copyableVars, receiveVars, declared, runs,
                   model_fields, exclude, formVars, store>>

\* ReadOnlyAdmin.__init__, first statement: super().__init__
ReadOnlyInitSuper ==
    /\ Entering("ReadOnlyAdmin")
    /\ init' = [init EXCEPT !.pos = @ + 1, !.pending = <<init.pos>> \o @]
    /\ UNCHANGED <<klass, call, copyableVars, receiveVars, declared, class_readonly_fields,
                   readonly_fields, runs, model_fields, exclude, formVars, store>>

\* ModelAdmin.__init__ leaves readonly_fields alone and returns
ModelAdminInit ==
    /\ Entering("ModelAdmin")
    /\ init' = Returned
    /\ UNCHANGED <<klass, call, copyableVars, receiveVars, declared, class_readonly_fields,
                   readonly_fields, runs, model_fields, exclude, formVars, store>>

\* ReadOnlyAdmin.__init__ after super().__init__ has returned: readonly_fields is set
ReadOnlyInitExtend ==
    /\ IsAdmin /\ init.phase = "resume" /\ klass[init.pos] = "ReadOnlyAdmin"
    /\ readonly_fields' =
           Own("list", Lookup(class_readonly_fields, readonly_fields).val
                       \o NotExcluded(model_fields, exclude))
    /\ init' = Returned
    /\ UNCHANGED <<klass, call, copyableVars, receiveVars, declared, class_readonly_fields,
                   runs, model_fields, exclude, formVars, store>>
ReadOnlyInitSet ==
    /\ IsAdmin /\ init.phase = "resume" /\ klass[init.pos] = "ReadOnlyAdmin"
    /\ readonly_fields' = Own("list", NotExcluded(model_fields, exclude))
    /\ init' = Returned
    /\ UNCHANGED <<klass, call, copyableVars, receiveVars, declared, class_readonly_fields,
                   runs, model_fields, exclude, formVars, store>>

\* ReadOnlyAdmin's write operations: what each leaves in storage.
\* ModelAdmin's own save_model would store the object.
SaveModelStores(st, obj, value, change) == [st EXCEPT ![obj] = value]
save_model(st, obj, value, change) == st
delete_model(st, obj) == st
save_related(st, obj, value, change) == st
has_add_permission(r) == FALSE
has_delete_permission(r, obj) == FALSE

Result(v) == [kind |-> "return", exc |-> None, val |-> v]
CanCall ==
    /\ klass = MRO_ReadOnly /\ init.phase = "done"
    /\ call.n < MaxCalls
AdminCall(op, obj, out) ==
    [op |-> op, obj |-> obj, out |-> out, n |-> call.n + 1]

SaveModel ==
    /\ CanCall
    /\ \E obj \in Objects, value \in Submitted, change \in BOOLEAN :
         /\ store' = save_model(store, obj, value, change)
         /\ call' = AdminCall("save_model", obj, Result(None))
    /\ UNCHANGED <<klass, copyableVars, receiveVars, initVars, formVars>>

DeleteModel ==
    /\ CanCall
    /\ \E obj \in Objects :
         /\ store' = delete_model(store, obj)
         /\ call' = AdminCall("delete_model", obj, Result(None))
    /\ UNCHANGED <<klass, copyableVars, receiveVars, initVars, formVars>>

SaveRelated ==
    /\ CanCall
    /\ \E obj \in Objects, value \in Submitted, change \in BOOLEAN :
         /\ store' = save_related(store, obj, value, change)
         /\ call' = AdminCall("save_related", obj, Result(None))
    /\ UNCHANGED <<klass, copyableVars, receiveVars, initVars, formVars>>

HasAddPermission ==
    /\ CanCall
    /\ \E r \in Requests :
         call' = AdminCall("has_add_permission", NoObject,
                           Result(has_add_permission(r)))
    /\ UNCHANGED <<klass, copyableVars, receiveVars, initVars, formVars, store>>

HasDeletePermission ==
    /\ CanCall
    /\ \E r \in Requests, obj \in {NoObject} \cup Objects :
         call' = AdminCall("has_delete_permission", obj,
                           Result(has_delete_permission(r, obj)))
    /\ UNCHANGED <<klass, copyableVars, receiveVars, initVars, formVars, store>>

NextAdmin ==
    \/ CallInit \/ NewObject
    \/ TimeReadonlyInit \/ ReadOnlyInitSuper \/ ModelAdminInit \/ ReadOnlyInitSet
    \/ SaveModel \/ DeleteModel \/ SaveRelated \/ HasAddPermission \/ HasDeletePermission

\* ------------------------------------------------ AlwaysHasChangedMixin
Values == 0..MaxValue

\* the host form's has_changed: the submitted data differ from the initial data
HostHasChanged(f) == f.data # f.initial

\* has_changed of the mixin; adding is self.instance._state.adding
HasChangedDefers(adding, host) == host
has_changed(adding, host) == IF adding THEN TRUE ELSE host

\* form.adding: the form's own instance (the inline item) is not in storage yet;
\* form.parent_adding: the object the inline belongs to is not in storage yet,
\* and then no item of it is
InitForm ==
    /\ klass = MRO_Form
    /\ call = [op |-> "has_changed", out |-> NoOutcome]
    /\ form \in {f \in [adding : BOOLEAN, parent_adding : BOOLEAN,
                        data : Values, initial : Values] :
                     f.parent_adding => f.adding}
    /\ IdleCopyable /\ IdleReceive /\ IdleInit /\ IdleStore

\* the host's formset asks the form whether it changed
HasChanged ==
    /\ klass = MRO_Form
    /\ call.out = NoOutcome
    /\ call' = [call EXCEPT !.out = Result(has_changed(form.adding, HostHasChanged(form)))]
    /\ UNCHANGED <<klass, copyableVars, receiveVars, initVars, formVars, store>>

NextForm == HasChanged

\* ------------------------------------------------------------ system
Init == InitCopyable \/ InitReceive \/ InitAdmin \/ InitForm
Next == NextCopyable \/ NextReceive \/ NextAdmin \/ NextForm
Spec == Init /\ [][Next]_vars

\* C1: get_fields raises CopyableFieldError, and returns nothing, exactly when
\* copyable_fields is not a subset of the declared fields, object present or not.
C1_SubsetViolationRaises ==
    (klass = MRO_Copyable /\ call.op = "get_fields" /\ call.out # NoOutcome) =>
        IF Range(copyable_fields) \subseteq Range(call.fields)
        THEN call.out.kind = "return"
        ELSE call.out.kind = "raise" /\ call.out.exc = "CopyableFieldError"

C1_Witness ==
    /\ klass = MRO_Copyable /\ call.op = "get_fields"
    /\ call.obj # NoObject
    /\ call.fields # <<>>
    /\ ~(Range(copyable_fields) \subseteq Range(call.fields))
    /\ Range(copyable_fields) \cap Range(call.fields) # {}
    /\ call.out.kind = "raise"

\* C2: with copyable_fields a subset of the declared fields, get_fields returns
\* exactly the declared fields outside copyable_fields when the object is absent
\* and the declared list itself when the object is present.
C2_GetFieldsResult ==
    (/\ klass = MRO_Copyable /\ call.op = "get_fields" /\ call.out # NoOutcome
     /\ Range(copyable_fields) \subseteq Range(call.fields)) =>
        /\ call.out.kind = "return"
        /\ IF call.obj = NoObject
           THEN Range(call.out.val) = Range(call.fields) \ Range(copyable_fields)
           ELSE call.out.val = call.fields

C2_Witness ==
    /\ klass = MRO_Copyable /\ call.op = "get_fields"
    /\ call.obj = NoObject
    /\ copyable_fields = <<"uuid">>
    /\ call.fields = <<"name", "uuid", "key">>
    /\ call.out.kind = "return"
    /\ call.out.val = <<"key", "name">>

\* C3: get_readonly_fields returns the declared readonly list unchanged when the
\* object is absent, and a list naming the declared readonly names together with
\* copyable_fields when the object is present.
C3_GetReadonlyResult ==
    (klass = MRO_Copyable /\ call.op = "get_readonly_fields" /\ call.out # NoOutcome) =>
        /\ call.out.kind = "return"
        /\ IF call.obj = NoObject
           THEN call.out.val = call.fields
           ELSE /\ Range(call.out.val) = Range(call.fields) \cup Range(copyable_fields)
                /\ Range(copyable_fields) \subseteq Range(call.out.val)

C3_Witness ==
    /\ klass = MRO_Copyable /\ call.op = "get_readonly_fields"
    /\ call.obj # NoObject
    /\ copyable_fields = <<"uuid">>
    /\ call.fields = <<"name">>
    /\ call.out # NoOutcome
    /\ call.out.val = <<"name", "uuid">>

\* ------------------------------------------------------ receive_url claims
IsReceive == klass = MRO_ReceiveUrl
Finished(r) == handlers[r].pc = "done"
\* the path reverse gives for the object of request r
PathOf(r) ==
    Reverse(receive_url_name, receive_url_urlconf,
            IF Truthy(receive_url_object_arg)
            THEN <<receive_url_object_arg, GetAttr(handlers[r].obj, receive_url_object_arg)>>
            ELSE <<>>).path
\* the base URLs a result may start with
BaseUrls == {receive_url_baseurl} \cup {BaseUrlOf(r) : r \in Requests}

\* C4: with receive_url_name set and receive_url_querystring_arg not set,
\* receive_url returns base URL + reversed path, with no query string, and
\* raises nothing.
C4_NoQuerystringReturnsPath ==
    IsReceive =>
        \A r \in Requests :
            (/\ Finished(r)
             /\ receive_url_name # None
             /\ ~Truthy(receive_url_querystring_arg)) =>
                /\ handlers[r].out.kind = "return"
                /\ \E b \in BaseUrls : handlers[r].out.val = b \o PathOf(r)

\* C5 as claimed: with receive_url_name unset, receive_url fails with the error
\* kind of the copyable_fields subset violation (CopyableFieldError), before the
\* URL is reversed or the request is read.
C5_UnsetNameRaisesConfigurationError ==
    IsReceive =>
        \A r \in Requests :
            (Finished(r) /\ receive_url_name = None) =>
                /\ handlers[r].out.kind = "raise"
                /\ IsInstance(handlers[r].out.exc, "CopyableFieldError")
                /\ ~handlers[r].out.reversed
                /\ ~handlers[r].out.read_request

\* C5 as amended: with receive_url_name unset, receive_url fails with ValueError,
\* which is no CopyableFieldError and no FieldError, for every object and every
\* setting of the other options, before the URL is reversed or the request read.
C5_UnsetNameRaisesValueError ==
    IsReceive =>
        \A r \in Requests :
            (Finished(r) /\ receive_url_name = None) =>
                /\ handlers[r].out.kind = "raise"
                /\ handlers[r].out.exc = "ValueError"
                /\ ~IsInstance(handlers[r].out.exc, "FieldError")
                /\ ~handlers[r].out.reversed
                /\ ~handlers[r].out.read_request

C5_Witness ==
    /\ IsReceive
    /\ receive_url_name = None
    /\ receive_url_object_arg = "pk"
    /\ receive_url_querystring_arg = "key"
    /\ receive_url_baseurl = None
    /\ \E r \in Requests :
         /\ Finished(r)
         /\ handlers[r].out.kind = "raise"
         /\ handlers[r].out.exc = "ValueError"

\* the URL receive_url builds for the object of request r from the scheme and
\* host of request u
UrlFrom(r, u) ==
    FormatUrl(BaseUrlOf(u), PathOf(r), receive_url_querystring_arg,
              GetAttr(handlers[r].obj, receive_url_querystring_arg))

\* C9: on a shared admin with no receive_url_baseurl, the URL receive_url returns
\* while request r is handled is built from the request stored on the admin at
\* that moment, whichever request's view stored it last.
C9_UrlFromStoredRequest ==
    [][IsReceive =>
          \A r \in Requests :
              (/\ handlers[r].pc = "view"
               /\ handlers'[r].pc = "done"
               /\ handlers'[r].out.kind = "return"
               /\ ~Truthy(receive_url_baseurl)) =>
                  handlers'[r].out.val = UrlFrom(r, request)]_vars

\* request r got a URL made from the scheme and host of another request u
C9_Witness ==
    /\ IsReceive
    /\ ~Truthy(receive_url_baseurl)
    /\ \E r, u \in Requests :
         /\ r # u
         /\ Finished(r)
         /\ handlers[r].out.kind = "return"
         /\ handlers[r].out.val = UrlFrom(r, u)
         /\ handlers[r].out.val # UrlFrom(r, r)

\* ------------------------------------------------------ initializer claims
\* the readonly list the object shows
Visible == Lookup(class_readonly_fields, readonly_fields)
Done == init.phase = "done" /\ runs.object > 0
RECURSIVE Repeat(_, _)
Repeat(q, n) == IF n = 0 THEN <<>> ELSE q \o Repeat(q, n - 1)

\* the append of TimeReadonlyAdminMixin.__init__ is the step taken
Appends == Entering("TimeReadonlyAdminMixin") /\ init'.pos = init.pos + 1

\* C6 as claimed: after the initializer the readonly list holds every name of L
\* plus created and modified, and running the initializer again on a list that
\* already holds created and modified leaves the list unchanged.
C6_InitializerIdempotent ==
    /\ []((klass = MRO_Time /\ Done) =>
             Range(Visible.val) = Range(declared.val) \cup Range(Timestamps))
    /\ [][(/\ klass = MRO_Time
           /\ Appends
           /\ Range(Timestamps) \subseteq Range(Visible.val)) =>
              Lookup(class_readonly_fields', readonly_fields').val = Visible.val]_vars

\* C6 as amended: after n runs the readonly list is L followed by n copies of
\* (created, modified), n counting the runs on the object when L is a tuple and
\* the runs on all objects of the class when L is a list (extended in place):
\* the first run adds created and modified, every later run appends them again,
\* and the set of names stays L plus created and modified.
C6_InitializerAppendsEachRun ==
    (klass = MRO_Time /\ Done) =>
        /\ Visible.val = declared.val \o
               Repeat(Timestamps, IF declared.kind = "tuple" THEN runs.object ELSE runs.class)
        /\ Range(Visible.val) = Range(declared.val) \cup Range(Timestamps)

C6_Witness ==
    /\ klass = MRO_Time /\ Done
    /\ runs.object = 2
    /\ declared.val = <<"name">>
    /\ Visible.val = <<"name", "created", "modified", "created", "modified">>

\* the base readonly list ReadOnlyAdmin's initializer sets
BaseList == NotExcluded(model_fields, exclude)

C8_NoMutationNoPermission ==
    /\ [][klass = MRO_ReadOnly => store' = store]_vars
    /\ []((klass = MRO_ReadOnly
           /\ call.op \in {"save_model", "delete_model", "save_related"}) =>
              call.out.kind = "return")
    /\ []((klass = MRO_ReadOnly
           /\ call.op \in {"has_add_permission", "has_delete_permission"}) =>
              call.out = Result(FALSE))

\* three write calls were accepted, the last a save of an object storage lacks
C8_Witness ==
    /\ klass = MRO_ReadOnly
    /\ call.op = "save_model"
    /\ call.n = MaxCalls
    /\ store[call.obj] = "absent"

\* ------------------------------------------------------ has_changed claims
Answered == klass = MRO_Form /\ call.out # NoOutcome

\* C7 as claimed: has_changed is true whenever the parent object is not in
\* storage yet, and is the host's answer whenever the parent object is.
C7_ParentDecides ==
    Answered =>
        IF form.parent_adding
        THEN call.out.val = TRUE
        ELSE call.out.val = HostHasChanged(form)

\* C7 as amended: has_changed is true whenever the sub-form's own instance (the
\* inline item) is not in storage yet, whatever the data and the host's answer,
\* and so for every sub-form of a parent not yet stored; it is the host's answer
\* whenever the sub-form's own instance is in storage.
C7_InstanceDecides ==
    Answered =>
        /\ IF form.adding
           THEN call.out.val = TRUE
           ELSE call.out.val = HostHasChanged(form)
        /\ form.parent_adding => call.out.val = TRUE

\* a new item of a stored parent, data left at the defaults: changed all the same
C7_Witness ==
    /\ Answered
    /\ form.adding /\ ~form.parent_adding
    /\ ~HostHasChanged(form)
    /\ call.out.val = TRUE
====
